---- MODULE Spec2Model ----
(***************************************************************************)
(* Forum backend of src/server.js: personas, posts and comments behind a   *)
(* REST API, in its two persistence variants.                              *)
(*                                                                         *)
(*   variant = "sqlite"  lines 1-281: better-sqlite3, synchronous; every   *)
(*                       handler runs to completion as one step.           *)
(*   variant = "replit"  lines 283-488: @replit/database, asynchronous;    *)
(*                       a handler yields at every await, so the steps of  *)
(*                       concurrent requests interleave.                   *)
(*                                                                         *)
(* Text conventions.  A name is a sequence of characters, so that trim()   *)
(* and toLowerCase() / COLLATE NOCASE are computed.  The two non-ASCII     *)
(* literals of the source are written in pinyin: ReservedName is the       *)
(* three-character reserved persona name of lines 88 and 322, and          *)
(* DeletedPersonaName the five-character placeholder of lines 133 and 372. *)
(* nowIso() and Date.now() both read the variable clock (milliseconds);    *)
(* the ISO text of a time orders as the time does.  The bio and creator    *)
(* columns are stored and returned untouched and are left out.             *)
(***************************************************************************)
EXTENDS Integers, Sequences, FiniteSets, Bags, TLC

\* ------------------------------------------------------------------ bounds
\* Largest clock reading.
MaxClock == 2
\* Number of requests accepted in one behaviour.
MaxReq == 2

\* Connections of the asynchronous variant: as many requests can be in flight.
Clients == { "c1", "c2" }

\* ------------------------------------------------------------ value domains
\* SQL NULL / JavaScript null of an id or timestamp field; falsy like them.
NULL == 0
\* Number("x"): the result of converting text that is not a number.
NaN == -1
\* NULL of a text column (avatar_url, image_url).
NullText == "null"

ReservedName == <<"wei", "ming", "ming">>
DeletedPersonaName == <<"yi", "shan", "chu", "ren", "she">>

\* Request bodies the model submits.
NameInputs == { <<" ">>, <<"A">>, <<"a", " ">>, <<"b">>, ReservedName }
AvatarInputs == { "", "http://u", "ftp://u" }
ImageInputs == { "", "ftp://u" }
ContentInputs == { "", "hi" }
\* An id no row or key ever gets.
AbsentId == MaxClock + MaxReq + 1

\* ------------------------------------------------------------- pure helpers
IsSpace(ch) == ch = " "

RECURSIVE TrimStart(_)
TrimStart(s) ==
  IF s # <<>> /\ IsSpace(Head(s)) THEN TrimStart(Tail(s)) ELSE s

RECURSIVE TrimEnd(_)
TrimEnd(s) ==
  IF s # <<>> /\ IsSpace(s[Len(s)]) THEN TrimEnd(SubSeq(s, 1, Len(s) - 1)) ELSE s

\* String.prototype.trim
Trim(s) == TrimEnd(TrimStart(s))

LowerChar(ch) ==
  CASE ch = "A" -> "a"
    [] ch = "B" -> "b"
    [] OTHER -> ch

\* String.prototype.toLowerCase; also the folding of COLLATE NOCASE
ToLowerCase(s) == [i \in 1..Len(s) |-> LowerChar(s[i])]

\* name = ? COLLATE NOCASE
EqNoCase(a, b) == ToLowerCase(a) = ToLowerCase(b)

\* function isProbablyHttpUrl(u)
IsProbablyHttpUrl(u) == u \in { "http://u", "https://u" }

\* (x || null) of a trimmed text field
OrNull(u) == IF u = "" THEN NullText ELSE u

\* Number.isFinite
IsFinite(x) == x # NaN

\* JavaScript truthiness of an id, a timestamp or null
Truthy(x) == x # NULL /\ x # NaN

Min(S) == CHOOSE x \in S : \A y \in S : x <= y

\* ------------------------------------------------------------------- state
VARIABLES
  variant,       \* which persistence variant this server runs
  clock,         \* wall clock, milliseconds
  personas,      \* table personas / keys "persona:<id>"
  persona_name,  \* keys "persona_name:<lowercased name>" -> id (replit only)
  posts,         \* table posts / keys "post:<id>"
  comments,      \* table comments (by id) / keys "comment_post:<post>:<id>"
  seq,           \* AUTOINCREMENT counters of the three tables (sqlite only)
  inflight,      \* bag of the handlers suspended at an await (replit only)
  res,           \* the response sent by the last step, NoRes if it sent none
  nreq           \* requests accepted so far

vars == << variant, clock, personas, persona_name, posts, comments, seq,
           inflight, res, nreq >>

store == << personas, persona_name, posts, comments, seq >>

NoRes == [op |-> "none", status |-> 0, code |-> "", id |-> NULL]

\* res.status(s).json({error: code}) / res.json({ok: true, id})
Response(op, status, code, id) ==
  [op |-> op, status |-> status, code |-> code, id |-> id]
Ok(op, id) == Response(op, 200, "OK", id)

\* The database outlives the process (.data/forum.db, the hosted key-value
\* store), so a server starts on whatever earlier runs stored.  Seeded is the
\* content left by POST /api/personas {name: "A", avatar_url: "http://u"}
\* followed by POST /api/posts {persona_name: "A", content: "hi"} at clock 1,
\* which both variants reach from the empty database.
SeedPersona ==
  [id |-> 1, name |-> <<"A">>, avatar_url |-> "http://u", deleted_at |-> NULL]
SeedPost ==
  [id |-> 1, persona_id |-> 1, content |-> "hi", image_url |-> NullText,
   created_at |-> 1, deleted_at |-> NULL]

Seeded ==
  /\ personas = << SeedPersona >>
  /\ posts = << SeedPost >>
  /\ comments = <<>>
  /\ IF variant = "sqlite"
     THEN /\ persona_name = <<>>
          /\ seq = [personas |-> 1, posts |-> 1, comments |-> 0]
     ELSE /\ persona_name = (<<"a">> :> 1)
          /\ seq = [personas |-> 0, posts |-> 0, comments |-> 0]

Empty ==
  /\ personas = <<>>
  /\ persona_name = <<>>
  /\ posts = <<>>
  /\ comments = <<>>
  /\ seq = [personas |-> 0, posts |-> 0, comments |-> 0]

Init ==
  /\ variant \in { "sqlite", "replit" }
  /\ clock = 1
  /\ Empty \/ Seeded
  /\ inflight = EmptyBag
  /\ res = NoRes
  /\ nreq = 0

\* Time passes.
Tick ==
  /\ clock < MaxClock
  /\ clock' = clock + 1
  /\ res' = NoRes
  /\ UNCHANGED << variant, store, inflight, nreq >>

\* A request is accepted by the server.
Accept ==
  /\ nreq < MaxReq
  /\ nreq' = nreq + 1

\* Ids a client may name: every stored one, one never issued, one malformed.
IdInputs(table) == { table[k].id : k \in DOMAIN table } \cup { AbsentId, NaN }

\* ------------------------------------------------------------ sqlite variant
\* Every handler is synchronous: one step from request to response.
Sqlite == variant = "sqlite"

\* INSERT into a table with INTEGER PRIMARY KEY AUTOINCREMENT
NextRowid(table) == seq[table] + 1

\* SELECT id, deleted_at FROM personas WHERE name = ? COLLATE NOCASE  .get():
\* no index has that collation, so the table is scanned in rowid order and
\* the first match is the row returned.  NULL when no row matches.
SqlPersonaByName(name) ==
  LET m == { id \in DOMAIN personas : EqNoCase(personas[id].name, name) }
  IN  IF m = {} THEN NULL ELSE Min(m)

\* A uniqueness that soft-deleted rows do not take part in.
UniqueAmongLive(name) ==
  \A id \in DOMAIN personas :
    personas[id].deleted_at = NULL => personas[id].name # name

\* name TEXT NOT NULL UNIQUE: the column has the default BINARY collation.
SqlNameUnique(name) ==
  \A id \in DOMAIN personas : personas[id].name # name

SqlRespond(r) ==
  /\ res' = r
  /\ UNCHANGED << variant, clock, persona_name, inflight >>

\* A handler that inserts the row before it checks avatar_url.
InsertBeforeAvatarCheck(nameIn, avatarIn) ==
  LET name == Trim(nameIn)
      id == NextRowid("personas")
  IN
  /\ Sqlite /\ Accept
  /\ IF name = <<>> \/ name = ReservedName \/ ~SqlNameUnique(name) THEN
       /\ SqlRespond(Response("createPersona", 400, "NAME_REQUIRED", NULL))
       /\ UNCHANGED << personas, posts, comments, seq >>
     ELSE
       /\ personas' = (id :> [id |-> id, name |-> name,
                              avatar_url |-> OrNull(avatarIn),
                              deleted_at |-> NULL]) @@ personas
       /\ seq' = [seq EXCEPT !.personas = id]
       /\ SqlRespond(IF avatarIn # "" /\ ~IsProbablyHttpUrl(avatarIn)
                     THEN Response("createPersona", 400, "AVATAR_URL_INVALID", NULL)
                     ELSE Ok("createPersona", id))
       /\ UNCHANGED << posts, comments >>

\* app.post("/api/personas")
SqlCreatePersona(nameIn, avatarIn) ==
  LET name == Trim(nameIn)
      id == NextRowid("personas")
  IN
  /\ Sqlite /\ Accept
  /\ IF name = <<>> THEN
       /\ SqlRespond(Response("createPersona", 400, "NAME_REQUIRED", NULL))
       /\ UNCHANGED << personas, posts, comments, seq >>
     ELSE IF name = ReservedName THEN
       /\ SqlRespond(Response("createPersona", 400, "NAME_RESERVED", NULL))
       /\ UNCHANGED << personas, posts, comments, seq >>
     ELSE IF avatarIn # "" /\ ~IsProbablyHttpUrl(avatarIn) THEN
       /\ SqlRespond(Response("createPersona", 400, "AVATAR_URL_INVALID", NULL))
       /\ UNCHANGED << personas, posts, comments, seq >>
     ELSE IF ~SqlNameUnique(name) THEN
       /\ SqlRespond(Response("createPersona", 409, "NAME_EXISTS", NULL))
       /\ UNCHANGED << personas, posts, comments, seq >>
     ELSE
       /\ personas' = (id :> [id |-> id, name |-> name,
                              avatar_url |-> OrNull(avatarIn),
                              deleted_at |-> NULL]) @@ personas
       /\ seq' = [seq EXCEPT !.personas = id]
       /\ SqlRespond(Ok("createPersona", id))
       /\ UNCHANGED << posts, comments >>

\* app.delete("/api/personas/:id")
SqlDeletePersona(id) ==
  /\ Sqlite /\ Accept
  /\ IF ~IsFinite(id) THEN
       /\ SqlRespond(Response("deletePersona", 400, "BAD_ID", id))
       /\ UNCHANGED << personas, posts, comments, seq >>
     ELSE IF id \notin DOMAIN personas THEN
       /\ SqlRespond(Response("deletePersona", 404, "NOT_FOUND", id))
       /\ UNCHANGED << personas, posts, comments, seq >>
     ELSE IF Truthy(personas[id].deleted_at) THEN
       /\ SqlRespond(Ok("deletePersona", id))
       /\ UNCHANGED << personas, posts, comments, seq >>
     ELSE
       /\ personas' = [personas EXCEPT ![id].deleted_at = clock]
       /\ SqlRespond(Ok("deletePersona", id))
       /\ UNCHANGED << posts, comments, seq >>

\* app.post("/api/posts")
SqlCreatePost(nameIn, contentIn, imageIn) ==
  LET personaName == Trim(nameIn)
      persona == SqlPersonaByName(personaName)
      id == NextRowid("posts")
  IN
  /\ Sqlite /\ Accept
  /\ IF personaName = <<>> THEN
       /\ SqlRespond(Response("createPost", 400, "PERSONA_REQUIRED", NULL))
       /\ UNCHANGED << personas, posts, comments, seq >>
     ELSE IF contentIn = "" THEN
       /\ SqlRespond(Response("createPost", 400, "CONTENT_REQUIRED", NULL))
       /\ UNCHANGED << personas, posts, comments, seq >>
     ELSE IF imageIn # "" /\ ~IsProbablyHttpUrl(imageIn) THEN
       /\ SqlRespond(Response("createPost", 400, "IMAGE_URL_INVALID", NULL))
       /\ UNCHANGED << personas, posts, comments, seq >>
     ELSE IF persona = NULL \/ Truthy(personas[persona].deleted_at) THEN
       /\ SqlRespond(Response("createPost", 400, "PERSONA_NOT_FOUND", NULL))
       /\ UNCHANGED << personas, posts, comments, seq >>
     ELSE
       /\ posts' = (id :> [id |-> id, persona_id |-> persona,
                           content |-> contentIn,
                           image_url |-> OrNull(imageIn),
                           created_at |-> clock,
                           deleted_at |-> NULL]) @@ posts
       /\ seq' = [seq EXCEPT !.posts = id]
       /\ SqlRespond(Ok("createPost", id))
       /\ UNCHANGED << personas, comments >>

\* db.transaction: UPDATE posts SET deleted_at; UPDATE comments SET deleted_at
SqlCascade(id, ts) ==
  /\ posts' = [posts EXCEPT ![id].deleted_at = ts]
  /\ comments' = [k \in DOMAIN comments |->
                    IF comments[k].post_id = id
                    THEN [comments[k] EXCEPT !.deleted_at = ts]
                    ELSE comments[k]]

\* app.delete("/api/posts/:id")
SqlDeletePost(id) ==
  /\ Sqlite /\ Accept
  /\ IF ~IsFinite(id) THEN
       /\ SqlRespond(Response("deletePost", 400, "BAD_ID", id))
       /\ UNCHANGED << personas, posts, comments, seq >>
     ELSE IF id \notin DOMAIN posts THEN
       /\ SqlRespond(Response("deletePost", 404, "NOT_FOUND", id))
       /\ UNCHANGED << personas, posts, comments, seq >>
     ELSE IF Truthy(posts[id].deleted_at) THEN
       /\ SqlRespond(Ok("deletePost", id))
       /\ UNCHANGED << personas, posts, comments, seq >>
     ELSE
       /\ SqlCascade(id, clock)
       /\ SqlRespond(Ok("deletePost", id))
       /\ UNCHANGED << personas, seq >>

\* The reply target check of app.post("/api/comments")
SqlReplyTargetOk(replyTo, postId) ==
  /\ replyTo \in DOMAIN comments
  /\ ~Truthy(comments[replyTo].deleted_at)
  /\ comments[replyTo].post_id = postId

\* app.post("/api/comments")
SqlCreateComment(postId, nameIn, contentIn, replyTo) ==
  LET personaName == Trim(nameIn)
      persona == SqlPersonaByName(personaName)
      id == NextRowid("comments")
  IN
  /\ Sqlite /\ Accept
  /\ IF ~IsFinite(postId) THEN
       /\ SqlRespond(Response("createComment", 400, "POST_ID_REQUIRED", NULL))
       /\ UNCHANGED << personas, posts, comments, seq >>
     ELSE IF personaName = <<>> THEN
       /\ SqlRespond(Response("createComment", 400, "PERSONA_REQUIRED", NULL))
       /\ UNCHANGED << personas, posts, comments, seq >>
     ELSE IF contentIn = "" THEN
       /\ SqlRespond(Response("createComment", 400, "CONTENT_REQUIRED", NULL))
       /\ UNCHANGED << personas, posts, comments, seq >>
     ELSE IF replyTo # NULL /\ ~IsFinite(replyTo) THEN
       /\ SqlRespond(Response("createComment", 400, "BAD_REPLY_TO", NULL))
       /\ UNCHANGED << personas, posts, comments, seq >>
     ELSE IF postId \notin DOMAIN posts \/ Truthy(posts[postId].deleted_at) THEN
       /\ SqlRespond(Response("createComment", 404, "POST_NOT_FOUND", NULL))
       /\ UNCHANGED << personas, posts, comments, seq >>
     ELSE IF persona = NULL \/ Truthy(personas[persona].deleted_at) THEN
       /\ SqlRespond(Response("createComment", 400, "PERSONA_NOT_FOUND", NULL))
       /\ UNCHANGED << personas, posts, comments, seq >>
     ELSE IF replyTo # NULL /\ ~SqlReplyTargetOk(replyTo, postId) THEN
       /\ SqlRespond(Response("createComment", 400, "REPLY_TARGET_INVALID", NULL))
       /\ UNCHANGED << personas, posts, comments, seq >>
     ELSE
       /\ comments' = (id :> [id |-> id, post_id |-> postId,
                              persona_id |-> persona,
                              content |-> contentIn,
                              reply_to_comment_id |-> replyTo,
                              created_at |-> clock,
                              deleted_at |-> NULL]) @@ comments
       /\ seq' = [seq EXCEPT !.comments = id]
       /\ SqlRespond(Ok("createComment", id))
       /\ UNCHANGED << personas, posts >>

\* ------------------------------------------------------------ replit variant
\* A handler runs until its next await and is resumed later; inflight holds
\* its position (pc) and its local variables.  A step is the database call
\* the handler awaited together with the synchronous code that consumes the
\* result, up to the next reading of the clock or the next database call.
\* db.get returns a copy: changing it changes nothing stored.
Replit == variant = "replit"

\* db.get(key): NULL when the key is absent
KvGet(table, key) == IF key \in DOMAIN table THEN table[key] ELSE NULL

\* Whether db.get(key) returned a value
KvHas(table, key) == key \in DOMAIN table

\* db.set(key, value)
KvSet(table, key, value) == (key :> value) @@ table

\* JSON.stringify of a number inside a stored value: NaN is written as null
JsonNumber(x) == IF x = NaN THEN NULL ELSE x

\* db.delete(key)
KvDelete(table, key) == [k \in DOMAIN table \ { key } |-> table[k]]

\* db.list({prefix: `comment_post:${postId}:`})
KvListCommentKeys(postId) == { k \in DOMAIN comments : k[1] = postId }

\* A connection is free for a new request.
Free == Replit /\ BagCardinality(inflight) < Cardinality(Clients)

\* A new handler answers r before its first await.
KvReject(r) ==
  /\ res' = r
  /\ UNCHANGED inflight

\* A new handler suspends at its first await with locals h.
KvStart(l) ==
  /\ res' = NoRes
  /\ inflight' = inflight (+) SetToBag({ l })

\* The suspended handler h sends r and ends.
KvRespond(h, r) ==
  /\ res' = r
  /\ inflight' = inflight (-) SetToBag({ h })

\* The suspended handler h goes on to its next await with locals h.
KvAwait(h, l) ==
  /\ res' = NoRes
  /\ inflight' = (inflight (-) SetToBag({ h })) (+) SetToBag({ l })

\* Handler h of the given route is suspended at pc.
At(h, op, pc) ==
  /\ Replit
  /\ BagIn(h, inflight)
  /\ h.op = op
  /\ h.pc = pc

\* app.post("/api/personas"), lines 320-325
KvCreatePersonaBegin(nameIn, avatarIn) ==
  LET name == Trim(nameIn)
      existing == KvGet(persona_name, ToLowerCase(name))
  IN
  /\ Free /\ Accept
  /\ IF name = <<>> THEN
       KvReject(Response("createPersona", 400, "NAME_REQUIRED", NULL))
     ELSE IF name = ReservedName THEN
       KvReject(Response("createPersona", 400, "NAME_RESERVED", NULL))
     ELSE IF Truthy(existing) THEN
       KvReject(Response("createPersona", 409, "NAME_EXISTS", NULL))
     ELSE
       KvStart([op |-> "createPersona", pc |-> "id", name |-> name,
                   avatar |-> avatarIn])
  /\ UNCHANGED << variant, clock, store >>

\* lines 327-336: id = Date.now(), the record, the avatar check
KvCreatePersonaId(h) ==
  LET persona == [id |-> clock, name |-> h.name,
                  avatar_url |-> OrNull(h.avatar), deleted_at |-> NULL]
  IN
  /\ At(h, "createPersona", "id")
  /\ IF persona.avatar_url # NullText /\ ~IsProbablyHttpUrl(persona.avatar_url) THEN
       KvRespond(h, Response("createPersona", 400, "AVATAR_URL_INVALID", NULL))
     ELSE
       KvAwait(h, [op |-> "createPersona", pc |-> "set", persona |-> persona])
  /\ UNCHANGED << variant, clock, store, nreq >>

\* line 338: db.set("persona:" + id, persona)
KvCreatePersonaSet(h) ==
  /\ At(h, "createPersona", "set")
  /\ personas' = KvSet(personas, h.persona.id, h.persona)
  /\ KvAwait(h, [h EXCEPT !.pc = "setName"])
  /\ UNCHANGED << variant, clock, persona_name, posts, comments, seq, nreq >>

\* lines 339-340: db.set("persona_name:" + name.toLowerCase(), id)
KvCreatePersonaSetName(h) ==
  /\ At(h, "createPersona", "setName")
  /\ persona_name' = KvSet(persona_name, ToLowerCase(h.persona.name), h.persona.id)
  /\ KvRespond(h, Ok("createPersona", h.persona.id))
  /\ UNCHANGED << variant, clock, personas, posts, comments, seq, nreq >>

\* record.deleted_at = ts on the copy db.get returned
Stamped(record, ts) == [record EXCEPT !.deleted_at = ts]

\* app.delete("/api/personas/:id"), lines 344-347
KvDeletePersonaBegin(id) ==
  LET persona == KvGet(personas, id) IN
  /\ Free /\ Accept
  /\ IF ~KvHas(personas, id) THEN
       KvReject(Response("deletePersona", 404, "NOT_FOUND", id))
     ELSE
       KvStart([op |-> "deletePersona", pc |-> "stamp", id |-> id,
                   persona |-> persona])
  /\ UNCHANGED << variant, clock, store >>

\* line 349: persona.deleted_at = nowIso().  The locals keep the record as it
\* was fetched and the new deleted_at beside it; Stamped is the object the
\* handler holds from here on.
KvDeletePersonaStamp(h) ==
  /\ At(h, "deletePersona", "stamp")
  /\ KvAwait(h, [op |-> "deletePersona", pc |-> "set", id |-> h.id,
                 persona |-> h.persona, deleted_at |-> clock])
  /\ UNCHANGED << variant, clock, store, nreq >>

\* line 350: db.set(key, persona)
KvDeletePersonaSet(h) ==
  /\ At(h, "deletePersona", "set")
  /\ personas' = KvSet(personas, h.id, Stamped(h.persona, h.deleted_at))
  /\ KvAwait(h, [h EXCEPT !.pc = "deleteName"])
  /\ UNCHANGED << variant, clock, persona_name, posts, comments, seq, nreq >>

\* lines 351-352: db.delete("persona_name:" + persona.name.toLowerCase())
KvDeletePersonaDeleteName(h) ==
  /\ At(h, "deletePersona", "deleteName")
  /\ persona_name' = KvDelete(persona_name, ToLowerCase(h.persona.name))
  /\ KvRespond(h, Ok("deletePersona", h.id))
  /\ UNCHANGED << variant, clock, personas, posts, comments, seq, nreq >>

\* app.post("/api/posts"), lines 420-428
KvCreatePostBegin(nameIn, contentIn, imageIn) ==
  LET personaName == Trim(nameIn)
      personaId == KvGet(persona_name, ToLowerCase(personaName))
  IN
  /\ Free /\ Accept
  /\ IF personaName = <<>> \/ contentIn = "" THEN
       KvReject(Response("createPost", 400, "MISSING_FIELDS", NULL))
     ELSE IF imageIn # "" /\ ~IsProbablyHttpUrl(imageIn) THEN
       KvReject(Response("createPost", 400, "IMAGE_URL_INVALID", NULL))
     ELSE IF ~Truthy(personaId) THEN
       KvReject(Response("createPost", 400, "PERSONA_NOT_FOUND", NULL))
     ELSE
       KvStart([op |-> "createPost", pc |-> "id", persona_id |-> personaId,
                   content |-> contentIn, image |-> imageIn])
  /\ UNCHANGED << variant, clock, store >>

\* lines 430-438: id = Date.now(), created_at = nowIso()
KvCreatePostId(h) ==
  /\ At(h, "createPost", "id")
  /\ KvAwait(h, [op |-> "createPost", pc |-> "set",
                 post |-> [id |-> clock, persona_id |-> h.persona_id,
                           content |-> h.content,
                           image_url |-> OrNull(h.image),
                           created_at |-> clock, deleted_at |-> NULL]])
  /\ UNCHANGED << variant, clock, store, nreq >>

\* lines 439-440: db.set("post:" + id, post)
KvCreatePostSet(h) ==
  /\ At(h, "createPost", "set")
  /\ posts' = KvSet(posts, h.post.id, h.post)
  /\ KvRespond(h, Ok("createPost", h.post.id))
  /\ UNCHANGED << variant, clock, personas, persona_name, comments, seq, nreq >>

\* app.delete("/api/posts/:id"), lines 444-447
KvDeletePostBegin(id) ==
  LET post == KvGet(posts, id) IN
  /\ Free /\ Accept
  /\ IF ~KvHas(posts, id) THEN
       KvReject(Response("deletePost", 404, "NOT_FOUND", id))
     ELSE
       KvStart([op |-> "deletePost", pc |-> "stamp", id |-> id, post |-> post])
  /\ UNCHANGED << variant, clock, store >>

\* line 449: post.deleted_at = nowIso()
KvDeletePostStamp(h) ==
  /\ At(h, "deletePost", "stamp")
  /\ KvAwait(h, [op |-> "deletePost", pc |-> "set", id |-> h.id,
                 post |-> h.post, deleted_at |-> clock])
  /\ UNCHANGED << variant, clock, store, nreq >>

\* line 450: db.set(key, post)
KvDeletePostSet(h) ==
  /\ At(h, "deletePost", "set")
  /\ posts' = KvSet(posts, h.id, Stamped(h.post, h.deleted_at))
  /\ KvAwait(h, [h EXCEPT !.pc = "list"])
  /\ UNCHANGED << variant, clock, personas, persona_name, comments, seq, nreq >>

\* line 453: db.list; with no key the loop is skipped and the handler answers
KvDeletePostList(h) ==
  LET commentKeys == KvListCommentKeys(h.id)
  IN
  /\ At(h, "deletePost", "list")
  /\ IF commentKeys = {} THEN
       KvRespond(h, Ok("deletePost", h.id))
     ELSE
       KvAwait(h, [op |-> "deletePost", pc |-> "delete", id |-> h.id,
                   post |-> h.post, deleted_at |-> h.deleted_at,
                   commentKeys |-> commentKeys])
  /\ UNCHANGED << variant, clock, store, nreq >>

\* The listed keys come in key order: within one post, by comment id.
FirstKey(keys) == CHOOSE k \in keys : \A j \in keys : k[2] <= j[2]

\* lines 454-457: one db.delete(k) of the loop; after the last, the answer
KvDeletePostDelete(h) ==
  LET k == FirstKey(h.commentKeys)
      rest == h.commentKeys \ { k }
  IN
  /\ At(h, "deletePost", "delete")
  /\ comments' = KvDelete(comments, k)
  /\ IF rest = {} THEN
       KvRespond(h, Ok("deletePost", h.id))
     ELSE
       KvAwait(h, [h EXCEPT !.commentKeys = rest])
  /\ UNCHANGED << variant, clock, personas, persona_name, posts, seq, nreq >>

\* app.post("/api/comments"), lines 461-469
KvCreateCommentBegin(postId, nameIn, contentIn, replyTo) ==
  LET personaName == Trim(nameIn)
      post == KvGet(posts, postId)
  IN
  /\ Free /\ Accept
  /\ IF ~Truthy(postId) \/ personaName = <<>> \/ contentIn = "" THEN
       KvReject(Response("createComment", 400, "MISSING_FIELDS", NULL))
     ELSE IF ~KvHas(posts, postId) \/ Truthy(post.deleted_at) THEN
       KvReject(Response("createComment", 404, "POST_NOT_FOUND", NULL))
     ELSE
       KvStart([op |-> "createComment", pc |-> "persona", post_id |-> postId,
                   personaName |-> personaName, content |-> contentIn,
                   reply_to_comment_id |-> replyTo])
  /\ UNCHANGED << variant, clock, store >>

\* lines 471-472: the persona_name lookup
KvCreateCommentPersona(h) ==
  LET personaId == KvGet(persona_name, ToLowerCase(h.personaName))
  IN
  /\ At(h, "createComment", "persona")
  /\ IF ~Truthy(personaId) THEN
       KvRespond(h, Response("createComment", 400, "PERSONA_NOT_FOUND", NULL))
     ELSE
       KvAwait(h, [op |-> "createComment", pc |-> "id", post_id |-> h.post_id,
                   persona_id |-> personaId, content |-> h.content,
                   reply_to_comment_id |-> h.reply_to_comment_id])
  /\ UNCHANGED << variant, clock, store, nreq >>

\* line 474: id = Date.now()
KvCreateCommentId(h) ==
  /\ At(h, "createComment", "id")
  /\ KvAwait(h, [op |-> "createComment", pc |-> "stamp", id |-> clock,
                 post_id |-> h.post_id, persona_id |-> h.persona_id,
                 content |-> h.content,
                 reply_to_comment_id |-> h.reply_to_comment_id])
  /\ UNCHANGED << variant, clock, store, nreq >>

\* lines 475-483: the record, created_at = nowIso().  This is a second
\* reading of the clock, which may have advanced since line 474.
KvCreateCommentStamp(h) ==
  /\ At(h, "createComment", "stamp")
  /\ KvAwait(h, [op |-> "createComment", pc |-> "set",
                 comment |-> [id |-> h.id, post_id |-> h.post_id,
                              persona_id |-> h.persona_id,
                              content |-> h.content,
                              reply_to_comment_id |-> h.reply_to_comment_id,
                              created_at |-> clock, deleted_at |-> NULL]])
  /\ UNCHANGED << variant, clock, store, nreq >>

\* lines 484-485: db.set(`comment_post:${postId}:${id}`, comment)
KvCreateCommentSet(h) ==
  /\ At(h, "createComment", "set")
  /\ comments' = KvSet(comments, << h.comment.post_id, h.comment.id >>,
                       [h.comment EXCEPT !.reply_to_comment_id = JsonNumber(@)])
  /\ KvRespond(h, Ok("createComment", h.comment.id))
  /\ UNCHANGED << variant, clock, personas, persona_name, posts, seq, nreq >>

\* ------------------------------------------------------------------- reads
\* A GET changes nothing stored: its answer is a function of the store.  The
\* replit handlers read through several awaits; the answer modelled is the
\* one they give when no write falls between their reads.

\* deleted_at IS NULL / !row.deleted_at
Live(row) == ~Truthy(row.deleted_at)

\* What the replit handlers leave unset: the key is missing from the JSON.
Undefined == "undefined"

\* Lines 133-135 (and 166-168, 188-190) over LEFT JOIN personas per.
\* persona_deleted is 1 or 0 there; TRUE and FALSE stand for them.
SqlPersonaFields(personaId) ==
  IF personaId \in DOMAIN personas
  THEN LET per == personas[personaId] IN
       [persona_name |-> per.name,
        persona_avatar_url |->
          IF per.deleted_at # NULL THEN NullText ELSE per.avatar_url,
        persona_deleted |-> per.deleted_at # NULL]
  ELSE [persona_name |-> DeletedPersonaName,
        persona_avatar_url |-> NullText,
        persona_deleted |-> TRUE]

\* getPersona(id) and lines 372-374 (and 393-395, 411-413)
KvPersonaFields(personaId) ==
  IF Truthy(personaId) /\ KvHas(personas, personaId)
  THEN LET persona == personas[personaId] IN
       [persona_name |->
          IF persona.name # <<>> THEN persona.name ELSE DeletedPersonaName,
        persona_avatar_url |->
          IF Truthy(persona.deleted_at) THEN NullText ELSE persona.avatar_url,
        persona_deleted |-> Truthy(persona.deleted_at)]
  ELSE [persona_name |-> DeletedPersonaName,
        persona_avatar_url |-> Undefined,
        persona_deleted |-> TRUE]

PersonaFields(personaId) ==
  IF Sqlite THEN SqlPersonaFields(personaId) ELSE KvPersonaFields(personaId)

\* A count that forgets WHERE c.post_id = p.id.
CountOfAllLiveComments(postId) ==
  Cardinality({ c \in DOMAIN comments : comments[c].deleted_at = NULL })

\* (SELECT COUNT(1) FROM comments c WHERE c.post_id = p.id AND c.deleted_at IS NULL)
SqlReplyCount(postId) ==
  Cardinality({ c \in DOMAIN comments :
                  comments[c].post_id = postId /\ comments[c].deleted_at = NULL })

\* commentKeys.length of db.list({prefix: `comment_post:${p.id}:`})
KvReplyCount(postId) == Cardinality(KvListCommentKeys(postId))

ReplyCount(postId) ==
  IF Sqlite THEN SqlReplyCount(postId) ELSE KvReplyCount(postId)

\* WHERE p.deleted_at IS NULL / .filter(p => !p.deleted_at)
ListedPosts == { k \in DOMAIN posts : Live(posts[k]) }

\* One row of GET /api/posts
PostRow(k) ==
  LET p == posts[k]
      per == PersonaFields(p.persona_id)
  IN  [id |-> p.id, content |-> p.content, image_url |-> p.image_url,
       created_at |-> p.created_at, deleted_at |-> p.deleted_at,
       persona_id |-> p.persona_id,
       persona_name |-> per.persona_name,
       persona_avatar_url |-> per.persona_avatar_url,
       persona_deleted |-> per.persona_deleted,
       reply_count |-> ReplyCount(p.id)]

\* GET /api/posts: the rows returned, by post
GetPosts == [k \in ListedPosts |-> PostRow(k)]

\* req.query.sort || "new"
SortInputs == { "", "new", "hot" }

\* An ordering by reply_count alone, without the created_at tie-break.
ByReplyCountOnly(a, b) == a.reply_count > b.reply_count

\* ORDER BY reply_count DESC, p.created_at DESC /
\* b.reply_count - a.reply_count || new Date(b.created_at) - new Date(a.created_at)
HotBefore(a, b) ==
  \/ a.reply_count > b.reply_count
  \/ a.reply_count = b.reply_count /\ a.created_at > b.created_at

\* ORDER BY p.created_at DESC / new Date(b.created_at) - new Date(a.created_at)
NewBefore(a, b) == a.created_at > b.created_at

\* sort === "hot" ? ... : ...
PostBefore(sort, a, b) ==
  IF sort = "hot" THEN HotBefore(a, b) ELSE NewBefore(a, b)

\* The arrangements of a set of keys in a sequence.
Perms(S) ==
  { s \in [1..Cardinality(S) -> S] :
      \A i, j \in 1..Cardinality(S) : i # j => s[i] # s[j] }

\* GET /api/posts?sort=: the sequences of posts the handler can return.  Rows
\* that the ordering does not tell apart come in the order of the query plan
\* or of the key listing, which the code does not fix.
GetPostsSorted(sort) ==
  { s \in Perms(ListedPosts) :
      \A i, j \in DOMAIN s :
        i < j => ~PostBefore(sort, PostRow(s[j]), PostRow(s[i])) }

\* WHERE c.post_id = ? AND c.deleted_at IS NULL /
\* db.list({prefix}) then .filter(c => !c.deleted_at)
ListedComments(postId) ==
  IF Sqlite
  THEN { c \in DOMAIN comments :
           comments[c].post_id = postId /\ comments[c].deleted_at = NULL }
  ELSE { k \in KvListCommentKeys(postId) : Live(comments[k]) }

\* One comment of GET /api/posts/:id
CommentRow(k) ==
  LET c == comments[k]
      per == PersonaFields(c.persona_id)
  IN  [id |-> c.id, post_id |-> c.post_id, content |-> c.content,
       created_at |-> c.created_at,
       reply_to_comment_id |-> c.reply_to_comment_id,
       persona_id |-> c.persona_id,
       persona_name |-> per.persona_name,
       persona_avatar_url |-> per.persona_avatar_url,
       persona_deleted |-> per.persona_deleted]

\* GET /api/posts/:id: the status, and the comments returned, by key
GetPostStatus(id) ==
  IF Sqlite /\ ~IsFinite(id) THEN 400
  ELSE IF id \notin DOMAIN posts \/ Truthy(posts[id].deleted_at) THEN 404
  ELSE 200

GetPostComments(id) ==
  IF GetPostStatus(id) = 200
  THEN [k \in ListedComments(id) |-> CommentRow(k)]
  ELSE <<>>

\* ORDER BY c.created_at ASC, c.id ASC
SqlCommentBefore(a, b) ==
  \/ a.created_at < b.created_at
  \/ a.created_at = b.created_at /\ a.id < b.id

\* comments.sort((a, b) => new Date(a.created_at) - new Date(b.created_at))
KvCommentBefore(a, b) == a.created_at < b.created_at

CommentBefore(a, b) ==
  IF Sqlite THEN SqlCommentBefore(a, b) ELSE KvCommentBefore(a, b)

\* GET /api/posts/:id: the sequences of comments the handler can return.
\* Array.prototype.sort keeps comments of equal created_at in the order of
\* db.list, which the code does not fix.
GetPostCommentsSorted(id) ==
  IF GetPostStatus(id) = 200
  THEN { s \in Perms(ListedComments(id)) :
           \A i, j \in DOMAIN s :
             i < j => ~CommentBefore(comments[s[j]], comments[s[i]]) }
  ELSE { <<>> }

\* Position of a character in the collating order: the code unit, with the
\* two non-ASCII literals' characters after every ASCII one.
Code(ch) ==
  CASE ch = " " -> 32
    [] ch = "A" -> 65
    [] ch = "B" -> 66
    [] ch = "a" -> 97
    [] ch = "b" -> 98
    [] OTHER -> 128

\* The first position at which two texts differ, 0 if one is a prefix of the
\* other.
FirstDiff(a, b) ==
  LET d == { i \in 1..Min({ Len(a), Len(b) }) : a[i] # b[i] }
  IN  IF d = {} THEN 0 ELSE Min(d)

\* Text comparison by code units: negative, zero or positive.
Compare(a, b) ==
  LET i == FirstDiff(a, b)
  IN  IF i = 0 THEN Len(a) - Len(b) ELSE Code(a[i]) - Code(b[i])

\* name COLLATE NOCASE: comparison of the texts with A-Z folded.
CompareNoCase(a, b) == Compare(ToLowerCase(a), ToLowerCase(b))

\* a.name.localeCompare(b.name): letters first, and for texts that differ
\* only in case the lower-case letter first.
LocaleCompare(a, b) ==
  IF CompareNoCase(a, b) # 0 THEN CompareNoCase(a, b) ELSE Compare(b, a)

\* ORDER BY (deleted_at IS NOT NULL), name COLLATE NOCASE ASC
SqlPersonaBefore(a, b) ==
  \/ a.deleted_at = NULL /\ b.deleted_at # NULL
  \/ /\ (a.deleted_at = NULL) = (b.deleted_at = NULL)
     /\ CompareNoCase(a.name, b.name) < 0

\* The comparator of lines 311-315
KvPersonaCompare(a, b) ==
  IF Truthy(a.deleted_at) /\ ~Truthy(b.deleted_at) THEN 1
  ELSE IF ~Truthy(a.deleted_at) /\ Truthy(b.deleted_at) THEN -1
  ELSE LocaleCompare(a.name, b.name)

PersonaBefore(a, b) ==
  IF Sqlite THEN SqlPersonaBefore(a, b) ELSE KvPersonaCompare(a, b) < 0

\* GET /api/personas: the sequences of personas the handler can return.
GetPersonasSorted ==
  { s \in Perms(DOMAIN personas) :
      \A i, j \in DOMAIN s :
        i < j => ~PersonaBefore(personas[s[j]], personas[s[i]]) }

\* ------------------------------------------------------------------- next
\* A request can be accepted (the guard is repeated here so that no request
\* body is enumerated once the budget is spent).
SqlOpen == Sqlite /\ nreq < MaxReq
KvOpen == Free /\ nreq < MaxReq

Next ==
  \/ Tick
  \/ SqlOpen /\ \E n \in NameInputs, u \in AvatarInputs : SqlCreatePersona(n, u)
  \/ SqlOpen /\ \E id \in IdInputs(personas) : SqlDeletePersona(id)
  \/ SqlOpen /\ \E n \in NameInputs, t \in ContentInputs, u \in ImageInputs :
       SqlCreatePost(n, t, u)
  \/ SqlOpen /\ \E id \in IdInputs(posts) : SqlDeletePost(id)
  \/ SqlOpen /\ \E p \in IdInputs(posts), n \in NameInputs, t \in ContentInputs,
                   r \in IdInputs(comments) \cup { NULL } :
       SqlCreateComment(p, n, t, r)
  \/ KvOpen /\ \E n \in NameInputs, u \in AvatarInputs : KvCreatePersonaBegin(n, u)
  \/ KvOpen /\ \E id \in IdInputs(personas) : KvDeletePersonaBegin(id)
  \/ KvOpen /\ \E n \in NameInputs, t \in ContentInputs, u \in ImageInputs :
       KvCreatePostBegin(n, t, u)
  \/ KvOpen /\ \E id \in IdInputs(posts) : KvDeletePostBegin(id)
  \/ KvOpen /\ \E p \in IdInputs(posts), n \in NameInputs, t \in ContentInputs,
                  r \in IdInputs(comments) \cup { NULL } :
       KvCreateCommentBegin(p, n, t, r)
  \/ \E h \in BagToSet(inflight) : KvCreatePersonaId(h)
  \/ \E h \in BagToSet(inflight) : KvCreatePersonaSet(h)
  \/ \E h \in BagToSet(inflight) : KvCreatePersonaSetName(h)
  \/ \E h \in BagToSet(inflight) : KvDeletePersonaStamp(h)
  \/ \E h \in BagToSet(inflight) : KvDeletePersonaSet(h)
  \/ \E h \in BagToSet(inflight) : KvDeletePersonaDeleteName(h)
  \/ \E h \in BagToSet(inflight) : KvCreatePostId(h)
  \/ \E h \in BagToSet(inflight) : KvCreatePostSet(h)
  \/ \E h \in BagToSet(inflight) : KvDeletePostStamp(h)
  \/ \E h \in BagToSet(inflight) : KvDeletePostSet(h)
  \/ \E h \in BagToSet(inflight) : KvDeletePostList(h)
  \/ \E h \in BagToSet(inflight) : KvDeletePostDelete(h)
  \/ \E h \in BagToSet(inflight) : KvCreateCommentPersona(h)
  \/ \E h \in BagToSet(inflight) : KvCreateCommentId(h)
  \/ \E h \in BagToSet(inflight) : KvCreateCommentStamp(h)
  \/ \E h \in BagToSet(inflight) : KvCreateCommentSet(h)

Spec == Init /\ [][Next]_vars

\* ------------------------------------------------------------------ claims
\* Names used by the claims below.
LivePersonas == { k \in DOMAIN personas : Live(personas[k]) }

\* Some non-deleted persona has this name, ignoring case.
LiveNamed(name) == \E k \in LivePersonas : EqNoCase(personas[k].name, name)

ValidAvatars == { u \in AvatarInputs : u = "" \/ IsProbablyHttpUrl(u) }
ValidImages == { u \in ImageInputs : u = "" \/ IsProbablyHttpUrl(u) }
ValidContents == ContentInputs \ { "" }

\* C1: whatever state a request can observe while or after a post is being
\* deleted, the post and each of its comments are either all live or all
\* deleted.
C1_PostDeleteAtomic ==
  \A p \in DOMAIN posts : \A k \in DOMAIN comments :
    comments[k].post_id = p => (Live(posts[p]) <=> Live(comments[k]))

\* A step of DELETE /api/posts/P that writes.
DeletePostWrites(P) ==
  \/ SqlDeletePost(P)
  \/ \E h \in BagToSet(inflight) :
       /\ h.op = "deletePost" /\ h.id = P
       /\ KvDeletePostSet(h) \/ KvDeletePostDelete(h)

\* A DELETE /api/posts/P has not answered yet.
DeletingPost(P) ==
  \E h \in BagToSet(inflight) : h.op = "deletePost" /\ h.id = P

\* C2: once DELETE /api/posts/P has answered ok, P is in no list, its detail
\* is 404 and none of its comments is returned, at the answer and after
\* every later step (a post stored as deleted with no DELETE of it still
\* running is one whose DELETE has answered ok); and the deletion leaves
\* every other listed post listed, with the same comments in its detail.
C2_DeletedPostStaysHidden ==
  [][ /\ \A P \in DOMAIN posts :
           (res'.op = "deletePost" /\ res'.code = "OK" /\ res'.id = P) =>
              (P \notin ListedPosts' /\ GetPostStatus(P)' = 404
               /\ GetPostComments(P)' = <<>>)
      /\ \A P \in DOMAIN posts :
           (~Live(posts[P]) /\ ~DeletingPost(P)) =>
              (P \notin ListedPosts' /\ GetPostStatus(P)' = 404
               /\ GetPostComments(P)' = <<>>)
      /\ \A P \in DOMAIN posts :
           DeletePostWrites(P) =>
             \A Q \in ListedPosts \ { P } :
               /\ Q \in ListedPosts'
               /\ GetPostStatus(Q)' = 200
               /\ GetPostComments(Q)' = GetPostComments(Q)
    ]_vars

\* C3: POST /api/personas whose trimmed name equals, ignoring case, the name
\* of a non-deleted persona is answered 409 NAME_EXISTS and stores nothing
\* (the request being otherwise valid).  In the replit variant the answer is
\* decided by the lookup of the handler's first step.
C3_DuplicateNameRejected ==
  [][ \A n \in NameInputs, u \in ValidAvatars :
        (LiveNamed(Trim(n)) /\ (SqlCreatePersona(n, u) \/ KvCreatePersonaBegin(n, u)))
           => (res'.status = 409 /\ res'.code = "NAME_EXISTS"
               /\ store' = store /\ inflight' = inflight)
    ]_vars

\* C4: no two non-deleted personas have names that are equal ignoring case.
C4_LiveNamesUnique ==
  \A i, j \in LivePersonas :
    i # j => ~EqNoCase(personas[i].name, personas[j].name)

\* C5: DELETE /api/personas/:id of a persona that is already soft-deleted
\* answers ok and changes nothing stored; the answer is 404 NOT_FOUND only
\* for an id under which no persona is stored.
C5_PersonaDeleteIdempotent ==
  [][ /\ \A id \in DOMAIN personas :
           (~Live(personas[id]) /\ SqlDeletePersona(id)) =>
              (res'.code = "OK" /\ store' = store)
      /\ \A h \in BagToSet(inflight) :
           (h.op = "deletePersona" /\ ~Live(h.persona)
            /\ (KvDeletePersonaSet(h) \/ KvDeletePersonaDeleteName(h))) =>
              (store' = store /\ res'.code \in { "", "OK" })
      /\ \A id \in IdInputs(personas) :
           ((SqlDeletePersona(id) \/ KvDeletePersonaBegin(id))
            /\ res'.code = "NOT_FOUND") => id \notin DOMAIN personas
    ]_vars

\* The persona fields a returned post or comment row must carry.
PersonaShownRight(row) ==
  IF row.persona_id \in LivePersonas
  THEN /\ row.persona_name = personas[row.persona_id].name
       /\ row.persona_avatar_url = personas[row.persona_id].avatar_url
       /\ row.persona_deleted = FALSE
  ELSE /\ row.persona_name = DeletedPersonaName
       /\ row.persona_avatar_url = NullText
       /\ row.persona_deleted = TRUE

\* C6: every post returned by GET /api/posts and every comment returned by
\* GET /api/posts/:id shows the placeholder name, a null avatar and
\* persona_deleted true when its persona is soft-deleted or absent, and the
\* persona's own name and avatar and persona_deleted false otherwise.
C6_DeletedPersonaPlaceholder ==
  /\ \A p \in ListedPosts : PersonaShownRight(GetPosts[p])
  /\ \A p \in ListedPosts :
       \A k \in DOMAIN GetPostComments(p) :
         PersonaShownRight(GetPostComments(p)[k])

\* Some stored, non-deleted comment of the post has this id.
ReplyTargetValid(replyTo, postId) ==
  \E k \in DOMAIN comments :
    /\ comments[k].id = replyTo
    /\ comments[k].post_id = postId
    /\ Live(comments[k])

\* Every stored reply points at a stored comment of the same post.
RepliesStayInPost ==
  \A k \in DOMAIN comments :
    comments[k].reply_to_comment_id # NULL =>
      \E t \in DOMAIN comments :
        /\ comments[t].id = comments[k].reply_to_comment_id
        /\ comments[t].post_id = comments[k].post_id

\* C7: POST /api/comments whose reply_to_comment_id names no stored,
\* non-deleted comment of the same post is answered 400 REPLY_TARGET_INVALID
\* and stores nothing (the request being otherwise valid), and every stored
\* reply points at a stored comment of the same post.
C7_RepliesStayInPost ==
  [][ /\ \A p \in ListedPosts, n \in NameInputs, t \in ValidContents,
            r \in IdInputs(comments) \ { NaN } :
           (LiveNamed(Trim(n)) /\ ~ReplyTargetValid(r, p)
            /\ SqlCreateComment(p, n, t, r)) =>
              (res'.status = 400 /\ res'.code = "REPLY_TARGET_INVALID"
               /\ store' = store)
      /\ \A h \in BagToSet(inflight) :
           (KvCreateCommentSet(h)
            /\ JsonNumber(h.comment.reply_to_comment_id) # NULL
            /\ ~ReplyTargetValid(h.comment.reply_to_comment_id,
                                 h.comment.post_id)) =>
              (res'.status = 400 /\ res'.code = "REPLY_TARGET_INVALID"
               /\ store' = store)
      /\ RepliesStayInPost'
    ]_vars

\* The live personas that have this name, ignoring case.
LiveByName(name) ==
  { k \in LivePersonas : EqNoCase(personas[k].name, name) }

\* C8: creating a post or a comment under a persona_name succeeds with the
\* id of a non-deleted persona of that name (ignoring case) whenever there is
\* one, and is answered PERSONA_NOT_FOUND, storing nothing, whenever there is
\* none (the request being otherwise valid).  In the replit variant the
\* outcome is decided by the step that looks the name up.
C8_PersonaNameResolution ==
  [][ /\ \A n \in NameInputs, t \in ValidContents, u \in ValidImages :
           (Trim(n) # <<>> /\ SqlCreatePost(n, t, u)) =>
              IF LiveNamed(Trim(n))
              THEN /\ res'.code = "OK"
                   /\ posts'[res'.id].persona_id \in LiveByName(Trim(n))
              ELSE /\ res'.code = "PERSONA_NOT_FOUND"
                   /\ store' = store
      /\ \A p \in ListedPosts, n \in NameInputs, t \in ValidContents :
           (Trim(n) # <<>> /\ SqlCreateComment(p, n, t, NULL)) =>
              IF LiveNamed(Trim(n))
              THEN /\ res'.code = "OK"
                   /\ comments'[res'.id].persona_id \in LiveByName(Trim(n))
              ELSE /\ res'.code = "PERSONA_NOT_FOUND"
                   /\ store' = store
      /\ \A n \in NameInputs, t \in ValidContents, u \in ValidImages :
           (Trim(n) # <<>> /\ KvCreatePostBegin(n, t, u)) =>
              IF LiveNamed(Trim(n))
              THEN \E k \in LiveByName(Trim(n)) :
                     inflight' = inflight (+) SetToBag({
                       [op |-> "createPost", pc |-> "id", persona_id |-> k,
                        content |-> t, image |-> u] })
              ELSE /\ res'.code = "PERSONA_NOT_FOUND"
                   /\ store' = store /\ inflight' = inflight
      /\ \A h \in BagToSet(inflight) :
           KvCreateCommentPersona(h) =>
              IF LiveNamed(h.personaName)
              THEN /\ res'.code # "PERSONA_NOT_FOUND"
                   /\ \E l \in BagToSet(inflight') :
                        /\ l.op = "createComment" /\ l.pc = "id"
                        /\ l.persona_id \in LiveByName(h.personaName)
              ELSE /\ res'.code = "PERSONA_NOT_FOUND"
                   /\ store' = store
    ]_vars

\* C9: a create never reuses the id of a stored persona, post or comment, so
\* it overwrites nothing: the write of a create adds a record under an id no
\* stored record of that kind has, and leaves every stored record as it was.
C9_IdsUnique ==
  [][ /\ \A h \in BagToSet(inflight) :
           /\ KvCreatePersonaSet(h) =>
                \A k \in DOMAIN personas : personas[k].id # h.persona.id
           /\ KvCreatePostSet(h) =>
                \A k \in DOMAIN posts : posts[k].id # h.post.id
           /\ KvCreateCommentSet(h) =>
                \A k \in DOMAIN comments : comments[k].id # h.comment.id
      /\ (res'.code = "OK" /\ res'.op = "createPersona" /\ Sqlite) =>
            /\ \A k \in DOMAIN personas : personas[k].id # res'.id
            /\ \A k \in DOMAIN personas : personas'[k] = personas[k]
      /\ (res'.code = "OK" /\ res'.op = "createPost" /\ Sqlite) =>
            /\ \A k \in DOMAIN posts : posts[k].id # res'.id
            /\ \A k \in DOMAIN posts : posts'[k] = posts[k]
      /\ (res'.code = "OK" /\ res'.op = "createComment" /\ Sqlite) =>
            /\ \A k \in DOMAIN comments : comments[k].id # res'.id
            /\ \A k \in DOMAIN comments : comments'[k] = comments[k]
    ]_vars

\* C10: for every post returned by GET /api/posts, reply_count is the number
\* of stored comments of that post whose deleted_at is null.
C10_ReplyCountIsLiveComments ==
  \A p \in ListedPosts :
    GetPosts[p].reply_count =
      Cardinality({ k \in DOMAIN comments :
                      comments[k].post_id = p /\ comments[k].deleted_at = NULL })

\* A comment was just stored: the list shows a post with replies and another
\* post with fewer.
C10_Witness ==
  /\ res.op = "createComment" /\ res.code = "OK"
  /\ \E p, q \in ListedPosts :
       GetPosts[p].reply_count >= 1 /\ GetPosts[q].reply_count = 0

\* The post is absent or soft-deleted.
PostGone(postId) == postId \notin DOMAIN posts \/ ~Live(posts[postId])

\* C11: POST /api/comments naming a post that is absent or soft-deleted is
\* answered 404 POST_NOT_FOUND and stores nothing (the request being
\* otherwise valid), and no stored comment has a created_at later than the
\* deleted_at of its post.
C11_NoCommentOnDeletedPost ==
  [][ /\ \A p \in IdInputs(posts) \ { NaN }, n \in NameInputs,
            t \in ValidContents :
           (PostGone(p) /\ Trim(n) # <<>>
            /\ (SqlCreateComment(p, n, t, NULL)
                \/ KvCreateCommentBegin(p, n, t, NULL))) =>
              (res'.status = 404 /\ res'.code = "POST_NOT_FOUND"
               /\ store' = store /\ inflight' = inflight)
      /\ \A k \in DOMAIN comments' :
           LET p == comments'[k].post_id IN
           (p \in DOMAIN posts' /\ ~Live(posts'[p])) =>
              comments'[k].created_at <= posts'[p].deleted_at
    ]_vars

\* C12: no step removes a stored persona, post or comment record: every key
\* stored before a step is stored after it; and a soft-deleted post, and the
\* soft-deleted comments of a post, are returned by no read.
C12_RecordsNeverRemoved ==
  [][ /\ DOMAIN personas \subseteq DOMAIN personas'
      /\ DOMAIN posts \subseteq DOMAIN posts'
      /\ DOMAIN comments \subseteq DOMAIN comments'
      /\ \A p \in DOMAIN posts' :
           /\ ~Live(posts'[p]) => (p \notin ListedPosts' /\ GetPostStatus(p)' = 404)
           /\ \A k \in DOMAIN comments' :
                ~Live(comments'[k]) => k \notin DOMAIN GetPostComments(p)'
    ]_vars

\* C13: DELETE /api/posts/:id is answered 404 NOT_FOUND exactly when no post
\* is stored under that id, and on a post that is already soft-deleted it
\* answers ok and changes nothing stored.
C13_PostDeleteIdempotent ==
  [][ /\ \A id \in IdInputs(posts) \ { NaN } :
           (SqlDeletePost(id) \/ KvDeletePostBegin(id)) =>
              (res'.code = "NOT_FOUND" <=> id \notin DOMAIN posts)
      /\ \A id \in DOMAIN posts :
           (~Live(posts[id]) /\ SqlDeletePost(id)) =>
              (res'.code = "OK" /\ store' = store)
      /\ \A h \in BagToSet(inflight) :
           (h.op = "deletePost" /\ ~Live(h.post)
            /\ (KvDeletePostSet(h) \/ KvDeletePostList(h)
                \/ KvDeletePostDelete(h))) =>
              (store' = store /\ res'.code \in { "", "OK" })
    ]_vars

\* Number of stored comments of the post whose deleted_at is null.
LiveReplies(p) ==
  Cardinality({ k \in DOMAIN comments :
                  comments[k].post_id = p /\ comments[k].deleted_at = NULL })

\* C14: GET /api/posts returns exactly the non-deleted posts, each once; with
\* sort=hot by live reply count descending and, for equal counts, created_at
\* descending; otherwise by created_at descending.
C14_PostListSorted ==
  \A sort \in SortInputs :
    /\ GetPostsSorted(sort) # {}
    /\ \A s \in GetPostsSorted(sort) :
         /\ { s[i] : i \in DOMAIN s } = { p \in DOMAIN posts : posts[p].deleted_at = NULL }
         /\ Len(s) = Cardinality({ s[i] : i \in DOMAIN s })
         /\ \A i, j \in DOMAIN s :
              i < j =>
                IF sort = "hot"
                THEN \/ LiveReplies(s[i]) > LiveReplies(s[j])
                     \/ /\ LiveReplies(s[i]) = LiveReplies(s[j])
                        /\ posts[s[i]].created_at >= posts[s[j]].created_at
                ELSE posts[s[i]].created_at >= posts[s[j]].created_at

\* Two posts are listed, the older one with a reply: hot and new order differ.
C14_Witness ==
  /\ Cardinality(ListedPosts) >= 2
  /\ \E p, q \in ListedPosts :
       /\ posts[p].created_at < posts[q].created_at
       /\ LiveReplies(p) > LiveReplies(q)
       /\ \A s \in GetPostsSorted("hot") : s[1] = p
       /\ \A s \in GetPostsSorted("new") : s[1] = q

\* C15: GET /api/posts/:id is answered 404 when the post is absent or
\* soft-deleted; otherwise the comments returned are exactly the non-deleted
\* comments of that post, each once, by created_at ascending and, for equal
\* created_at, by id ascending.
C15_PostDetailComments ==
  \A id \in IdInputs(posts) \ { NaN } :
    IF id \notin DOMAIN posts \/ posts[id].deleted_at # NULL
    THEN GetPostStatus(id) = 404
    ELSE /\ GetPostStatus(id) = 200
         /\ GetPostCommentsSorted(id) # {}
         /\ \A s \in GetPostCommentsSorted(id) :
              /\ { s[i] : i \in DOMAIN s } =
                   { k \in DOMAIN comments :
                       comments[k].post_id = id /\ comments[k].deleted_at = NULL }
              /\ Len(s) = Cardinality({ s[i] : i \in DOMAIN s })
              /\ \A i, j \in DOMAIN s :
                   i < j =>
                     \/ comments[s[i]].created_at < comments[s[j]].created_at
                     \/ /\ comments[s[i]].created_at = comments[s[j]].created_at
                        /\ comments[s[i]].id < comments[s[j]].id

\* The response of GET /api/personas has the non-deleted personas before the
\* soft-deleted and each group by name ascending, ignoring case.
PersonaListOrdered ==
  \A s \in GetPersonasSorted :
    \A i, j \in DOMAIN s :
      i < j =>
        LET a == personas[s[i]]
            b == personas[s[j]]
        IN  /\ b.deleted_at = NULL => a.deleted_at = NULL
            /\ (a.deleted_at = NULL) = (b.deleted_at = NULL) =>
                 Compare(ToLowerCase(a.name), ToLowerCase(b.name)) <= 0

\* C16: GET /api/personas returns every persona ever created, soft-deleted
\* ones included: a stored persona stays stored under its id and name, and
\* the response holds every stored persona once, the non-deleted before the
\* soft-deleted and each group by name ascending, ignoring case.
C16_PersonaListComplete ==
  [][ /\ \A k \in DOMAIN personas :
           /\ k \in DOMAIN personas'
           /\ personas'[k].id = personas[k].id
           /\ personas'[k].name = personas[k].name
      /\ GetPersonasSorted' # {}
      /\ \A s \in GetPersonasSorted' :
           /\ { s[i] : i \in DOMAIN s } = DOMAIN personas'
           /\ Len(s) = Cardinality(DOMAIN personas')
      /\ PersonaListOrdered'
    ]_vars

\* The names a valid POST /api/personas can ask for.
FreeNames == { n \in NameInputs : Trim(n) # <<>> /\ Trim(n) # ReservedName }

\* Some soft-deleted persona has this name ignoring case, and no live one.
OnlyDeletedNamed(name) ==
  /\ ~LiveNamed(name)
  /\ \E k \in DOMAIN personas :
       ~Live(personas[k]) /\ EqNoCase(personas[k].name, name)

DeletePersonaWrites(id) ==
  \/ SqlDeletePersona(id)
  \/ \E h \in BagToSet(inflight) :
       /\ h.op = "deletePersona" /\ h.id = id
       /\ KvDeletePersonaSet(h) \/ KvDeletePersonaDeleteName(h)

\* C18: soft-deleting a persona changes only that persona's deleted_at: the
\* other personas, the persona's other fields, and every post and comment
\* stay as they were, GET /api/posts returns the same posts and every post
\* keeps its reply_count.
C18_PersonaDeleteFrame ==
  [][ \A id \in DOMAIN personas :
        DeletePersonaWrites(id) =>
          /\ DOMAIN personas' = DOMAIN personas
          /\ \A k \in DOMAIN personas \ { id } : personas'[k] = personas[k]
          /\ personas'[id] =
               [personas[id] EXCEPT !.deleted_at = personas'[id].deleted_at]
          /\ posts' = posts
          /\ comments' = comments
          /\ ListedPosts' = ListedPosts
          /\ \A p \in ListedPosts : ReplyCount(p)' = ReplyCount(p)
    ]_vars

\* A soft-deleted row of the table keeps its deleted_at over a step.
DeletedStays(table, tableAfter) ==
  \A k \in DOMAIN table :
    (table[k].deleted_at # NULL /\ k \in DOMAIN tableAfter) =>
       tableAfter[k].deleted_at = table[k].deleted_at

\* C19: once deleted_at of a persona, post or comment is set, no step sets
\* it back to null or changes its value, and a post that GET /api/posts and
\* GET /api/posts/:id no longer return is never returned again.
C19_DeletionPermanent ==
  [][ /\ DeletedStays(personas, personas')
      /\ DeletedStays(posts, posts')
      /\ DeletedStays(comments, comments')
      /\ \A p \in DOMAIN posts :
           p \notin ListedPosts =>
             (p \notin ListedPosts' /\ GetPostStatus(p)' = 404)
    ]_vars

\* The statuses of the error answers.
ErrorStatus == { 400, 404, 409 }

\* The suspended handler has already written to the store.
HasWritten(h) ==
  \/ h.op = "createPersona" /\ h.pc = "setName"
  \/ h.op = "deletePersona" /\ h.pc = "deleteName"
  \/ h.op = "deletePost" /\ h.pc \in { "list", "delete" }

\* C20: a step that answers with an error code writes nothing, and the
\* handler that answers it has written nothing before: every check of a
\* request precedes its first write.
C20_ErrorsWriteNothing ==
  [][ res'.status \in ErrorStatus =>
        /\ store' = store
        /\ \A h \in BagToSet(inflight) :
             CopiesIn(h, inflight') < CopiesIn(h, inflight) => ~HasWritten(h)
    ]_vars

\* The replit variant has refused an avatar_url, a check made after the first
\* await of the handler, on a store that holds records.
C20_Witness ==
  /\ Replit
  /\ res.status = 400 /\ res.code = "AVATAR_URL_INVALID"
  /\ personas # <<>> /\ posts # <<>>

====
